---- MODULE Spec2Model ----
(***************************************************************************)
(* whisper/upload_models.py: create a model repository on the hub,         *)
(* download a pre-trained checkpoint, upload it to the repository.         *)
(*                                                                         *)
(* Path strings are sequences of one-character strings, so that            *)
(* os.path.join, os.path.basename and path resolution are computed on the  *)
(* characters.  Repository identifiers and URLs of the hub are strings.    *)
(***************************************************************************)
EXTENDS Naturals, Sequences, FiniteSets, TLC

\* ------------------------------------------------------------- bounds
\* Number of calls a client makes in the specification SpecCalls.
MaxCalls == 2

\* ------------------------------------------------------------ strings
SEP == "/"

\* model_name + ".pt" (lines 61 and 92)
PT == <<".", "p", "t">>

small == <<"s", "m", "a", "l", "l">>
large == <<"l", "a", "r", "g", "e">>
bogus == <<"b", "o", "g", "u", "s">>
large_v2 == <<"l", "a", "r", "g", "e", "-", "v", "2">>

\* "models/" is local_dir of the entry point (line 90).
models_slash == <<"m", "o", "d", "e", "l", "s", "/">>
models_plain == <<"m", "o", "d", "e", "l", "s">>
out == <<"o", "u", "t">>
out_models == <<"o", "u", "t", "/", "m", "o", "d", "e", "l", "s">>

URL_BASE == <<"h", "t", "t", "p", "s", ":", "/", "/", "c", "d", "n", "/">>

\* ---------------------------------------------------------- os.path
StartsWithSep(p) == Len(p) > 0 /\ p[1] = SEP

EndsWithSep(p) == Len(p) > 0 /\ p[Len(p)] = SEP

\* posixpath.join(a, b)
join(a, b) ==
    IF StartsWithSep(b) THEN b
    ELSE IF a = <<>> \/ EndsWithSep(a) THEN a \o b
    ELSE a \o <<SEP>> \o b

\* Index of the last separator of p, 0 when there is none.
LastSep(p) ==
    IF \E i \in 1..Len(p) : p[i] = SEP
    THEN CHOOSE i \in 1..Len(p) : p[i] = SEP /\ \A j \in (i + 1)..Len(p) : p[j] # SEP
    ELSE 0

\* posixpath.basename(p): what follows the last separator.
basename(p) == SubSeq(p, LastSep(p) + 1, Len(p))

\* The components of p, as the kernel resolves it: empty components (a
\* doubled or trailing separator) are skipped; an absolute path starts with
\* the component <<SEP>>.
RECURSIVE Split(_, _, _)
Split(p, i, cur) ==
    IF i > Len(p) THEN (IF cur = <<>> THEN <<>> ELSE <<cur>>)
    ELSE IF p[i] = SEP
         THEN (IF cur = <<>> THEN <<>> ELSE <<cur>>) \o Split(p, i + 1, <<>>)
         ELSE Split(p, i + 1, Append(cur, p[i]))

Resolve(p) == (IF StartsWithSep(p) THEN <<(<<SEP>>)>> ELSE <<>>) \o Split(p, 1, <<>>)

Parent(c) == SubSeq(c, 1, Len(c) - 1)

\* ------------------------------------------------------------- inputs
\* Model names a caller may pass; bogus is in no table.
ModelNames == {small, large, bogus}

\* Tables whisper._MODELS may be (name -> URL); the table is injected.
TableA == (small :> (URL_BASE \o small \o PT)) @@ (large :> (URL_BASE \o large \o PT))

TableB == (small :> (URL_BASE \o small \o PT)) @@ (large :> (URL_BASE \o large_v2 \o PT))

Tables == {TableA, TableB}

OutputDirs == {models_slash, models_plain, out_models}

RepoIds == {"jerpint/whisper", "user/other"}

ENDPOINT == "https://huggingface.co/"

\* Initial file systems: [dirs, files] of resolved paths, relative to the
\* working directory <<>>, which always exists.
InitialFS ==
    { [dirs |-> {<<>>}, files |-> {}],
      [dirs |-> {<<>>, <<models_plain>>}, files |-> {}],
      [dirs |-> {<<>>, <<models_plain>>}, files |-> {<<models_plain, small \o PT>>}],
      [dirs |-> {<<>>}, files |-> {<<models_plain>>}],
      [dirs |-> {<<>>, <<out>>}, files |-> {}],
      [dirs |-> {<<>>}, files |-> {<<out>>}] }

None == "None"

NoError == "none"

VARIABLES
    MODELS,      \* whisper._MODELS
    repos,       \* the repositories that exist on the hub
    commits,     \* the hub's history of each repository
    dirs,        \* local file system: directories
    files,       \* local file system: regular files
    requests,    \* calls made to the remote-facing library functions, in order
    ret,         \* value returned by the last call
    err,         \* exception raised by the last call, NoError when it returned
    pc,          \* position of the entry point (lines 94..96)
    started,     \* the steps the entry point has started, in order
    completed,   \* the steps that have returned, in order
    repo_id, local_dir, model_name, hub_path,   \* lines 89..92
    repo_url, model_path,                       \* lines 94, 95
    ncalls,      \* SpecCalls: calls made so far
    last         \* SpecCalls: the last call, [fn, args]

world == <<repos, commits, dirs, files, requests>>

result == <<ret, err>>

inputs == <<MODELS, repo_id, local_dir, model_name, hub_path>>

mainvars == <<pc, started, completed, repo_url, model_path>>

callvars == <<ncalls, last>>

vars == <<world, result, inputs, mainvars, callvars>>

Request(kind, repo, url, operations) ==
    [kind |-> kind, repo |-> repo, url |-> url, operations |-> operations]

\* ------------------------------------------------- create_repository
\* huggingface_hub.create_repo(repo_id, repo_type, exist_ok), answered by a
\* hub that is reachable (up) or not: [err, ret, repos].
create_repo(rid, repo_type, exist_ok, up) ==
    IF ~up THEN [err |-> "HTTPError", ret |-> None, repos |-> repos]
    ELSE IF rid \in repos /\ ~exist_ok
         THEN [err |-> "HTTPError409", ret |-> None, repos |-> repos]
         ELSE [err |-> NoError, ret |-> ENDPOINT \o rid, repos |-> repos \cup {rid}]

\* Mutant: the call without exist_ok=True.
create_repository_no_exist_ok(rid) ==
    \E up \in BOOLEAN :
        LET r == create_repo(rid, "model", FALSE, up) IN
        /\ requests' = Append(requests, Request("create_repo", rid, <<>>, <<>>))
        /\ repos' = r.repos
        /\ ret' = r.ret
        /\ err' = r.err
        /\ UNCHANGED <<commits, dirs, files>>

create_repository(rid) ==
    \E up \in BOOLEAN :
        LET r == create_repo(rid, "model", TRUE, up) IN
        /\ requests' = Append(requests, Request("create_repo", rid, <<>>, <<>>))
        /\ repos' = r.repos
        /\ ret' = r.ret
        /\ err' = r.err
        /\ UNCHANGED <<commits, dirs, files>>

\* ------------------------------------------ download_pretrained_model
\* os.path.isdir(path)
isdir(path) == path # <<>> /\ Resolve(path) \in dirs

\* os.mkdir(path): [err, dirs].  One level is created; the parent must exist.
mkdir(path) ==
    LET c == Resolve(path) IN
    IF path = <<>> THEN [err |-> "FileNotFoundError", dirs |-> dirs]
    ELSE IF c \in dirs \cup files THEN [err |-> "FileExistsError", dirs |-> dirs]
    ELSE IF Parent(c) \in files THEN [err |-> "NotADirectoryError", dirs |-> dirs]
    ELSE IF Parent(c) \notin dirs THEN [err |-> "FileNotFoundError", dirs |-> dirs]
    ELSE [err |-> NoError, dirs |-> dirs \cup {c}]

\* Every prefix of the resolved path c, c included.
Ancestors(c) == { SubSeq(c, 1, n) : n \in 0..Len(c) }

\* Mutant: os.makedirs(output_dir, exist_ok=True) in place of isdir/mkdir.
ensure_output_dir_recursive(output_dir) ==
    LET c == Resolve(output_dir) IN
    IF \E a \in Ancestors(c) : a \in files
    THEN [err |-> "FileExistsError", dirs |-> dirs]
    ELSE [err |-> NoError, dirs |-> dirs \cup Ancestors(c)]

\* Lines 53-54: create folder if it doesn't exist.
ensure_output_dir(output_dir) ==
    IF ~isdir(output_dir) THEN mkdir(output_dir)
    ELSE [err |-> NoError, dirs |-> dirs]

\* Mutant: the assert removed.
assert_removed(name) == TRUE

\* Lines 48-50: the condition of the assert.
assert_model_name(name) == name \in DOMAIN MODELS

\* The file whisper._download(url, root, in_memory=False) writes: it is
\* given the URL and the directory only, and names the file after the URL.
download_target(url, root) == join(root, basename(url))

\* Mutant: the path whisper._download wrote is returned.
returned_download_target(name, output_dir) ==
    download_target(MODELS[name], output_dir)

\* Line 61: the value returned.
returned_path(name, output_dir) == join(output_dir, name \o PT)

Raise(e) == err' = e /\ ret' = None

download_pretrained_model(name, output_dir) ==
    IF ~assert_model_name(name)
    THEN Raise("AssertionError") /\ UNCHANGED world
    ELSE LET d == ensure_output_dir(output_dir) IN
         IF d.err # NoError
         THEN Raise(d.err) /\ UNCHANGED world
         ELSE /\ dirs' = d.dirs
              /\ UNCHANGED <<repos, commits>>
              /\ IF name \notin DOMAIN MODELS
                 THEN Raise("KeyError") /\ UNCHANGED <<files, requests>>
                 ELSE LET url == MODELS[name] IN
                      \E ok \in BOOLEAN :
                         /\ requests' = Append(requests, Request("_download", "", url, <<>>))
                         /\ IF ok
                            THEN /\ files' = files \cup {Resolve(download_target(url, output_dir))}
                                 /\ ret' = returned_path(name, output_dir)
                                 /\ err' = NoError
                            ELSE /\ files' = files
                                 /\ Raise("URLError")

\* ------------------------------------------------ upload_model_to_hub
\* CommitOperationAdd(path_in_repo, path_or_fileobj)
CommitOperationAdd(path_in_repo, path_or_fileobj) ==
    [op |-> "add", path_in_repo |-> path_in_repo, path_or_fileobj |-> path_or_fileobj]

\* Line 84: f"Upload model {hub_path}"
commit_message(path) ==
    <<"U", "p", "l", "o", "a", "d", " ", "m", "o", "d", "e", "l", " ">> \o path

\* HfApi.create_commit(repo_id, operations, commit_message), answered by a
\* hub that is reachable (up) or not: [err, commits].  A commit is applied
\* as a unit or not at all.
create_commit(rid, operations, message, up) ==
    IF \E o \in 1..Len(operations) : Resolve(operations[o].path_or_fileobj) \notin files
    THEN [err |-> "ValueError", commits |-> commits]
    ELSE IF ~up THEN [err |-> "HTTPError", commits |-> commits]
    ELSE IF rid \notin repos THEN [err |-> "RepositoryNotFoundError", commits |-> commits]
    ELSE [err |-> NoError,
          commits |-> [commits EXCEPT ![rid] =
                          Append(@, [message |-> message, operations |-> operations])]]

\* Mutant: the two paths exchanged.
operations_of_swapped(local_path, path) == <<CommitOperationAdd(local_path, path)>>

\* Lines 77-79: the operations of the commit.
operations_of(local_path, path) == <<CommitOperationAdd(path, local_path)>>

upload_model_to_hub(local_path, path, rid) ==
    \E up \in BOOLEAN :
        LET operations == operations_of(local_path, path)
            r == create_commit(rid, operations, commit_message(path), up) IN
        /\ requests' = Append(requests, Request("create_commit", rid, <<>>, operations))
        /\ commits' = r.commits
        /\ err' = r.err
        /\ ret' = None
        /\ UNCHANGED <<repos, dirs, files>>

\* -------------------------------------------------- the entry point
Order == <<"create_repository", "download_pretrained_model", "upload_model_to_hub">>

NoCall == [fn |-> "none", args |-> <<>>]

\* The state before the entry point runs, for every value of the three
\* literals of lines 89-91 (hub_path is computed from model_name, line 92).
Init ==
    /\ MODELS \in Tables
    /\ repos \in SUBSET RepoIds
    /\ commits = [r \in RepoIds |-> <<>>]
    /\ \E fs \in InitialFS : dirs = fs.dirs /\ files = fs.files
    /\ requests = <<>>
    /\ ret = None
    /\ err = NoError
    /\ pc = "create_repository"
    /\ started = <<>>
    /\ completed = <<>>
    /\ repo_id \in RepoIds
    /\ local_dir \in OutputDirs
    /\ model_name \in ModelNames
    /\ hub_path = model_name \o PT
    /\ repo_url = None
    /\ model_path = None
    /\ ncalls = 0
    /\ last = NoCall

\* Mutant: the URL create_repository returned is passed as the repository.
upload_args_repo_url ==
    [local_path |-> model_path, hub_path |-> hub_path, repo_id |-> repo_url]

\* Line 96: the arguments of upload_model_to_hub.
upload_args ==
    [local_path |-> model_path, hub_path |-> hub_path, repo_id |-> repo_id]

\* An uncaught exception ends the run; otherwise the next line runs.
Continue(step, next) ==
    IF err' = NoError
    THEN pc' = next /\ completed' = Append(completed, step)
    ELSE pc' = "exit1" /\ completed' = completed

\* Line 94
MainCreateRepository ==
    /\ pc = "create_repository"
    /\ started' = Append(started, "create_repository")
    /\ create_repository(repo_id)
    /\ repo_url' = IF err' = NoError THEN ret' ELSE repo_url
    /\ Continue("create_repository", "download_pretrained_model")
    /\ UNCHANGED <<model_path, inputs, callvars>>

\* Mutant: a failed download is ignored and the upload runs.
MainDownloadIgnoringFailure ==
    /\ pc = "download_pretrained_model"
    /\ started' = Append(started, "download_pretrained_model")
    /\ download_pretrained_model(model_name, local_dir)
    /\ model_path' = IF err' = NoError THEN ret' ELSE returned_path(model_name, local_dir)
    /\ pc' = "upload_model_to_hub"
    /\ completed' = IF err' = NoError THEN Append(completed, "download_pretrained_model") ELSE completed
    /\ UNCHANGED <<repo_url, inputs, callvars>>

\* Line 95
MainDownload ==
    /\ pc = "download_pretrained_model"
    /\ started' = Append(started, "download_pretrained_model")
    /\ download_pretrained_model(model_name, local_dir)
    /\ model_path' = IF err' = NoError THEN ret' ELSE model_path
    /\ Continue("download_pretrained_model", "upload_model_to_hub")
    /\ UNCHANGED <<repo_url, inputs, callvars>>

\* Mutant: a failed upload removes the downloaded file.
MainUploadWithCleanup ==
    /\ pc = "upload_model_to_hub"
    /\ started' = Append(started, "upload_model_to_hub")
    /\ \E up \in BOOLEAN :
        LET a == upload_args
            operations == operations_of(a.local_path, a.hub_path)
            r == create_commit(a.repo_id, operations, commit_message(a.hub_path), up) IN
        /\ requests' = Append(requests, Request("create_commit", a.repo_id, <<>>, operations))
        /\ commits' = r.commits
        /\ err' = r.err
        /\ ret' = None
        /\ files' = IF r.err = NoError THEN files ELSE files \ {Resolve(a.local_path)}
        /\ UNCHANGED <<repos, dirs>>
    /\ Continue("upload_model_to_hub", "exit0")
    /\ UNCHANGED <<repo_url, model_path, inputs, callvars>>

\* Line 96
MainUpload ==
    /\ pc = "upload_model_to_hub"
    /\ started' = Append(started, "upload_model_to_hub")
    /\ upload_model_to_hub(upload_args.local_path, upload_args.hub_path, upload_args.repo_id)
    /\ Continue("upload_model_to_hub", "exit0")
    /\ UNCHANGED <<repo_url, model_path, inputs, callvars>>

Next == MainCreateRepository \/ MainDownload \/ MainUpload

Spec == Init /\ [][Next]_vars

\* ------------------------------------------- the functions, called freely
LocalPaths == {join(models_slash, small \o PT), join(models_slash, large \o PT)}

HubPaths == {small \o PT, large \o PT}

\* The entry point is not running: its variables keep the literals of
\* lines 89-92.
InitCalls ==
    /\ MODELS \in Tables
    /\ repos \in SUBSET RepoIds
    /\ commits = [r \in RepoIds |-> <<>>]
    /\ \E fs \in InitialFS : dirs = fs.dirs /\ files = fs.files
    /\ requests = <<>>
    /\ ret = None
    /\ err = NoError
    /\ pc = "idle"
    /\ started = <<>>
    /\ completed = <<>>
    /\ repo_id = "jerpint/whisper"
    /\ local_dir = models_slash
    /\ model_name = small
    /\ hub_path = small \o PT
    /\ repo_url = None
    /\ model_path = None
    /\ ncalls = 0
    /\ last = NoCall

Called(fn, args) ==
    /\ ncalls' = ncalls + 1
    /\ last' = [fn |-> fn, args |-> args]
    /\ UNCHANGED <<inputs, mainvars>>

CallCreateRepository ==
    /\ ncalls < MaxCalls
    /\ \E rid \in RepoIds :
          create_repository(rid) /\ Called("create_repository", <<rid>>)

CallDownload ==
    /\ ncalls < MaxCalls
    /\ \E name \in ModelNames, output_dir \in OutputDirs :
          /\ download_pretrained_model(name, output_dir)
          /\ Called("download_pretrained_model", <<name, output_dir>>)

CallUpload ==
    /\ ncalls < MaxCalls
    /\ \E local_path \in LocalPaths, path \in HubPaths, rid \in RepoIds :
          /\ upload_model_to_hub(local_path, path, rid)
          /\ Called("upload_model_to_hub", <<local_path, path, rid>>)

NextCalls == CallCreateRepository \/ CallDownload \/ CallUpload

SpecCalls == InitCalls /\ [][NextCalls]_vars

\* ------------------------------------------------------------- claims
IsPrefix(a, b) == Len(a) <= Len(b) /\ a = SubSeq(b, 1, Len(a))

LastRequest == requests[Len(requests)]

\* The step of SpecCalls that calls fn.
IsCallOf(fn) == ncalls' = ncalls + 1 /\ last'.fn = fn

FsErrors == {"FileExistsError", "FileNotFoundError", "NotADirectoryError"}

\* C1: a call of download_pretrained_model with a model name that is no key
\* of the table raises AssertionError and changes nothing: no request is
\* added, no directory or file is created, the hub is as it was.
C1_UnknownNameNoEffect ==
    [][(IsCallOf("download_pretrained_model") /\ last'.args[1] \notin DOMAIN MODELS)
          => (err' = "AssertionError" /\ UNCHANGED world)]_vars

C1_Witness ==
    /\ last.fn = "download_pretrained_model"
    /\ last.args[1] \notin DOMAIN MODELS
    /\ err = "AssertionError"
    /\ Resolve(last.args[2]) \notin dirs
    /\ Parent(Resolve(last.args[2])) \in dirs

\* C2 (as claimed): when the entry point has failed with the precondition
\* violation of an unknown model name, no remote call has been attempted.
C2_NoRemoteCallAtAll ==
    (pc = "exit1" /\ model_name \notin DOMAIN MODELS /\ err = "AssertionError")
        => requests = <<>>

C2_Inv ==
    model_name \notin DOMAIN MODELS =>
        /\ pc \notin {"upload_model_to_hub", "exit0"}
        /\ Len(requests) <= 1
        /\ \A i \in 1..Len(requests) :
              requests[i] = Request("create_repo", repo_id, <<>>, <<>>)
        /\ (pc = "exit1" /\ completed = <<"create_repository">>)
              => (err = "AssertionError" /\ Len(requests) = 1)
        /\ (pc = "exit1" /\ completed = <<>>) => err = "HTTPError"

\* C2 (amended): run with an unknown model name, the entry point first calls
\* create_repository (one repository-creation request); if that fails the
\* run ends with the hub's error, otherwise it ends with AssertionError in
\* download_pretrained_model.  No download and no upload request is made
\* and the local file system is never changed.
C2_UnknownNameAfterCreate ==
    /\ []C2_Inv
    /\ [][model_name \notin DOMAIN MODELS => (dirs' = dirs /\ files' = files)]_vars

C2_Witness ==
    /\ model_name \notin DOMAIN MODELS
    /\ pc = "exit1"
    /\ err = "AssertionError"
    /\ Len(requests) = 1
    /\ Resolve(local_dir) \notin dirs
    /\ Parent(Resolve(local_dir)) \in dirs

C4_ReturnedPath ==
    (last.fn = "download_pretrained_model" /\ err = NoError)
        => /\ ret = join(last.args[2], last.args[1] \o PT)
           /\ Resolve(ret) = Append(Resolve(last.args[2]), last.args[1] \o PT)

C4_Witness ==
    /\ last.fn = "download_pretrained_model"
    /\ err = NoError
    /\ basename(MODELS[last.args[1]]) # last.args[1] \o PT
    /\ ~EndsWithSep(last.args[2])

C6_OneCommitOneAdd ==
    [][IsCallOf("upload_model_to_hub") =>
         LET local_path == last'.args[1]
             path == last'.args[2]
             rid == last'.args[3] IN
         /\ Len(requests') = Len(requests) + 1
         /\ SubSeq(requests', 1, Len(requests)) = requests
         /\ requests'[Len(requests')].kind = "create_commit"
         /\ requests'[Len(requests')].repo = rid
         /\ requests'[Len(requests')].operations =
               <<[op |-> "add", path_in_repo |-> path, path_or_fileobj |-> local_path]>>
         /\ err' = NoError =>
               /\ Len(commits'[rid]) = Len(commits[rid]) + 1
               /\ SubSeq(commits'[rid], 1, Len(commits[rid])) = commits[rid]
               /\ commits'[rid][Len(commits'[rid])].operations =
                     <<[op |-> "add", path_in_repo |-> path, path_or_fileobj |-> local_path]>>
               /\ \A r \in RepoIds \ {rid} : commits'[r] = commits[r]
         /\ err' # NoError => commits' = commits]_vars

C6_Witness ==
    /\ last.fn = "upload_model_to_hub"
    /\ err = NoError
    /\ Len(commits[last.args[3]]) = 1
    /\ LastRequest.kind = "create_commit"

C7_Inv ==
    /\ IsPrefix(started, Order)
    /\ IsPrefix(completed, started)
    /\ pc = "exit0" <=> completed = Order
    /\ pc = "exit1" <=> Len(started) = Len(completed) + 1
    /\ pc \notin {"exit0", "exit1"} => (completed = started /\ pc = Order[Len(started) + 1])

\* C7: the entry point starts create_repository, download_pretrained_model
\* and upload_model_to_hub in this order, each at most once, a step only
\* when every step before it has returned; it exits with 0 exactly when the
\* three steps have returned, and a step that raises ends the run (exit 1)
\* with no later step started.
C7_PipelineOrder ==
    /\ []C7_Inv
    /\ [][/\ started' # started => (completed = started /\ Len(started') = Len(started) + 1)
          /\ pc \in {"exit0", "exit1"} => (started' = started /\ pc' = pc)]_vars

C7_Witness ==
    /\ pc = "exit1"
    /\ started = <<"create_repository", "download_pretrained_model">>
    /\ completed = <<"create_repository">>
    /\ model_name \in DOMAIN MODELS

\* C8 (as claimed): the repository argument of the upload is the URL that
\* create_repository returned and its local path is the path that
\* download_pretrained_model returned.
C8_UploadUsesRepoUrl ==
    started = Order =>
        /\ LastRequest.repo = repo_url
        /\ LastRequest.operations[1].path_or_fileobj = model_path

\* C8 (amended): the local path of the upload is the path that
\* download_pretrained_model returned; its repository argument is the
\* identifier that was passed to create_repository, not the URL that
\* create_repository returned, which is not used; its destination is
\* hub_path.
C8_UploadArguments ==
    /\ pc = "upload_model_to_hub" => (model_path = ret /\ repo_url = ENDPOINT \o repo_id)
    /\ started = Order =>
          /\ LastRequest.kind = "create_commit"
          /\ LastRequest.repo = repo_id
          /\ LastRequest.repo # repo_url
          /\ LastRequest.operations =
                <<[op |-> "add", path_in_repo |-> hub_path, path_or_fileobj |-> model_path]>>
          /\ requests[1] = Request("create_repo", repo_id, <<>>, <<>>)

C8_Witness == started = Order /\ pc = "exit0"

\* C9: nothing is rolled back.  When the upload has failed after the two
\* earlier steps returned, the repository exists and the downloaded file is
\* where it was written; and no step ever removes a repository, a commit, a
\* directory or a file.
C9_NoRollback ==
    /\ [](pc = "exit1" /\ started = Order =>
            /\ repo_id \in repos
            /\ Resolve(download_target(MODELS[model_name], local_dir)) \in files)
    /\ [][/\ repos \subseteq repos'
          /\ files \subseteq files'
          /\ dirs \subseteq dirs'
          /\ \A r \in RepoIds : IsPrefix(commits[r], commits'[r])]_vars

C9_Witness ==
    /\ pc = "exit1"
    /\ started = Order
    /\ err = "HTTPError"
    /\ repo_id \in repos
    /\ Resolve(model_path) \in files

\* C10: for a valid model name, download_pretrained_model(name, output_dir)
\* leaves an existing output directory as it is; creates exactly the one
\* directory when it is absent and its parent exists; and when its parent is
\* absent too, or the path is a regular file, raises a file system error
\* with no request made and nothing created.  A download is only ever
\* requested with the output directory in place.
C10_OutputDirectory ==
    [][(IsCallOf("download_pretrained_model") /\ last'.args[1] \in DOMAIN MODELS) =>
         LET c == Resolve(last'.args[2]) IN
         /\ c \in dirs => (dirs' = dirs /\ Len(requests') = Len(requests) + 1)
         /\ (c \notin dirs /\ c \notin files /\ Parent(c) \in dirs)
               => (dirs' = dirs \cup {c} /\ Len(requests') = Len(requests) + 1)
         /\ (c \notin dirs /\ (c \in files \/ Parent(c) \notin dirs))
               => (err' \in FsErrors /\ UNCHANGED world)
         /\ requests' # requests => c \in dirs']_vars

C10_Witness ==
    /\ last.fn = "download_pretrained_model"
    /\ last.args[1] \in DOMAIN MODELS
    /\ err = "FileNotFoundError"
    /\ Parent(Resolve(last.args[2])) \notin dirs
    /\ requests = <<>>

====
